---- MODULE Spec2Model ----
(***************************************************************************)
(* Model of the ONNX export scripts under scripts/: one run of one         *)
(* conversion script, from checkpoint load to the final report of main().  *)
(* The file system below the output directory, the position of the run in  *)
(* the script and what the verifier observed are the state.                *)
(***************************************************************************)
EXTENDS Integers, Sequences, FiniteSets, TLC

VARIABLES
    script,                 \* which conversion script runs
    quantized,              \* --quantized / --quantize
    quantized_model_path,   \* --quantized_model_path (convert_st_code_model)
    skip_verification,      \* --skip_verification
    use_fp16,               \* --fp16 / use_fp16 / not --fp32
    dynamic_sequence,       \* model_config["dynamic_sequence"]
    benchmark,              \* --test / --benchmark
    model_name,             \* --model_name / model_id
    config,                 \* what the model identifier resolves to
    pc,                     \* position of the run
    fs,                     \* files written below output_dir by this run
    onnx_path,              \* path the convert function returned to main
    ran,                    \* stages executed so far, in order
    failed,                 \* stages in which the external tool failed
    dummy,                  \* shape of the dummy input used for tracing
    dynamic_axes,           \* dynamic_axes passed to torch.onnx.export
    ref_out,                \* reference model's output on the sample text
    verdict,                \* what the verifier concluded
    ran_reference,          \* the verifier ran the reference model
    atol_used,              \* absolute tolerance of that comparison
    text_tokens,            \* token count of a sample text under the tokenizer
    fed,                    \* shapes of the inputs fed to the exported graph
    max_length,             \* max_length the verifier's tokenizer truncates to
    reported,               \* main printed its "complete" banner
    metadata,               \* record written to metadata.json
    attempts,               \* inference attempts of the test loop, in order
    rewrite_failed,         \* rewrite of the catalogue that raised, if any
    rewrites_applied,       \* rewrites applied to the graph the optimizer left
    graph,                  \* graph handed to the initializer pruning
    saved,                  \* graph the pruning saved at model_path
    passes,                 \* number of times the pruning was applied
    check_n,                \* check_n argument of simplify_model
    simplify_pc,            \* position of simplify_model
    model_simp,             \* graph returned by onnxsim.simplify
    check,                  \* check flag returned by onnxsim.simplify
    disk,                   \* files at input_path, temp_path, output_path
    token_embeddings,       \* model_output[0] of one row, one hidden dimension
    attention_mask,         \* attention mask of that row
    sentence_embedding,     \* what mean_pooling returned for the row
    pool_pc,                \* position of the pooling call
    padding_change,         \* last change made to the row's padding
    lookup_config,          \* what the looked-up model name resolves to
    detected_max_len,       \* what get_model_max_sequence_length returned
    lookup_pc,              \* position of the lookup
    chunks,                 \* list given to check_overlaps
    overlaps,               \* list it returned, as pairs of list positions
    overlap_pc              \* position of the check_overlaps call

vars == <<script, quantized, quantized_model_path, skip_verification,
          use_fp16, dynamic_sequence, benchmark, model_name, config, pc, fs,
          onnx_path, ran, failed, dummy, dynamic_axes, ref_out, verdict,
          ran_reference, atol_used, text_tokens, fed, max_length, reported,
          metadata, attempts, rewrite_failed, rewrites_applied, graph, saved,
          passes, check_n, simplify_pc, model_simp, check, disk,
          token_embeddings, attention_mask, sentence_embedding, pool_pc,
          padding_change, lookup_config, detected_max_len, lookup_pc, chunks,
          overlaps, overlap_pc>>

\* state of one run of a conversion script
pipeline_vars == <<script, quantized, quantized_model_path,
                   skip_verification, use_fp16, dynamic_sequence, benchmark,
                   model_name, config, pc, fs, onnx_path, ran, failed, dummy,
                   dynamic_axes, ref_out, verdict, ran_reference, atol_used,
                   text_tokens, fed, max_length, reported, metadata,
                   attempts, rewrite_failed, rewrites_applied>>

\* what the optimizer did to the graph
rewrites == <<rewrite_failed, rewrites_applied>>

\* state of the functions examined on their own
pruning_vars == <<graph, saved, passes>>
simplifier_vars == <<check_n, simplify_pc, model_simp, check, disk>>
pooling_vars == <<token_embeddings, attention_mask, sentence_embedding,
                  pool_pc, padding_change>>
lookup_vars == <<lookup_config, detected_max_len, lookup_pc>>
overlap_vars == <<chunks, overlaps, overlap_pc>>
pure_vars == <<pooling_vars, lookup_vars, overlap_vars>>
unit_vars == <<pruning_vars, simplifier_vars, pure_vars>>

options == <<script, quantized, quantized_model_path, skip_verification,
             use_fp16, dynamic_sequence, benchmark, model_name, config,
             ref_out, text_tokens>>

(***************************************************************************)
(* Bounds of the model.                                                    *)
(***************************************************************************)
\* lists given to check_overlaps have 0..MaxChunks chunks
MaxChunks == 3
\* whose lines are 1..MaxLine
MaxLine == 3

\* rows given to mean_pooling have 1..MaxSeqLen positions
MaxSeqLen == 3

\* graph outputs differ from the reference by 0..MaxDrift drift steps
MaxDrift == 3
\* size of one drift step, in units of 1e-6
DRIFT_STEP == 52

(***************************************************************************)
(* Program constants. Output values are in units of 1e-6.                  *)
(***************************************************************************)
ATOL == 100
RTOL_INV == 100000
DEFAULT_SEQ_LEN == 128
BGE_SEQ_LEN == 512
GPU_SEQ_LEN == 384
DEFAULT_MAX_LEN == 512
TOKENIZER_UPPER_BOUND == 1000000

(***************************************************************************)
(* The scripts.                                                            *)
(***************************************************************************)
MINILM == "convert_all_minilm_model"
BGE_SMALL == "convert_bge_small_model"
ST_CODE == "convert_st_code_model"
BGE_BASE == "convert_bge_base_model"
E5 == "convert_e5_large_v2_model"
CODEBERT == "codebert"
DYN_BATCH == "convert_bge_dynamic_batching"
GPU_FP16 == "convert_bge_small_gpu_fp16"
DOWNLOAD_OPT == "download_optimized_bge_model"
OPTIMIZE_GPU == "optimize_bge_for_gpu"

Scripts == {MINILM, BGE_SMALL, ST_CODE, BGE_BASE, E5, CODEBERT, DYN_BATCH,
            GPU_FP16, DOWNLOAD_OPT, OPTIMIZE_GPU}

\* scripts with a --quantized / --quantize flag
HasQuantizeOption(s) == s \in {MINILM, BGE_SMALL, ST_CODE}

\* scripts with a --skip_verification flag
HasSkipOption(s) == s \in {MINILM, BGE_SMALL, ST_CODE, BGE_BASE, E5, GPU_FP16}

\* scripts whose main() calls a verify function
HasVerifier(s) == HasSkipOption(s) \/ s = CODEBERT

\* scripts with a --test / --benchmark flag
HasBenchmarkOption(s) == s \in {DYN_BATCH, DOWNLOAD_OPT}

\* scripts that wrap the checkpoint load in try/except + sys.exit(1)
LoadGuarded(s) == s \in {MINILM, BGE_SMALL, ST_CODE, BGE_BASE, E5, GPU_FP16}

\* scripts that wrap torch.onnx.export in try/except + sys.exit(1)
ExportGuarded(s) == s \in {MINILM, BGE_SMALL, ST_CODE, BGE_BASE, E5, GPU_FP16}

\* no rewrite of the optimizer raised
NoRewrite == "none"

(***************************************************************************)
(* float32 values: finite values in units of 1e-6, the two infinities and   *)
(* NaN, with the IEEE 754 rules torch applies to them.                      *)
(***************************************************************************)
Finite(v) == [kind |-> "finite", v |-> v]
Inf(sign) == [kind |-> "inf", v |-> sign]
NaN == [kind |-> "nan", v |-> 0]
\* the lower bound 1e-9 of torch.clamp, as a divisor
EPS == [kind |-> "eps", v |-> 1]
\* a finite value v divided by 1e-9: v * 1e9, still finite in float32
Scaled(v) == IF v = 0 THEN Finite(0) ELSE [kind |-> "finite_e9", v |-> v]

IsFinite(x) == x.kind = "finite"
Sign(n) == IF n < 0 THEN -1 ELSE 1

\* token_embeddings * input_mask_expanded, for one element; m is 0 or 1
MulMask(x, m) ==
    CASE x.kind = "nan" -> NaN
      [] x.kind = "inf" -> IF m = 0 THEN NaN ELSE x
      [] OTHER -> Finite(x.v * m)

\* float addition
FAdd(a, b) ==
    CASE a.kind = "nan" \/ b.kind = "nan" -> NaN
      [] a.kind = "inf" /\ b.kind = "inf" -> IF a.v = b.v THEN a ELSE NaN
      [] a.kind = "inf" -> a
      [] b.kind = "inf" -> b
      [] OTHER -> Finite(a.v + b.v)

\* float division by a divisor that is a token count, zero or EPS
FDiv(x, d) ==
    CASE x.kind = "nan" -> NaN
      [] x.kind = "inf" -> x
      [] d = EPS -> Scaled(x.v)
      [] d.v = 0 -> IF x.v = 0 THEN NaN ELSE Inf(Sign(x.v))
      [] OTHER -> Finite(x.v \div d.v)

RECURSIVE SumInts(_)
SumInts(seq) ==
    IF seq = <<>> THEN 0 ELSE Head(seq) + SumInts(Tail(seq))

\* torch.sum(token_embeddings * input_mask_expanded, 1)
RECURSIVE sum_embeddings(_, _)
sum_embeddings(hidden, mask) ==
    IF hidden = <<>> THEN Finite(0)
    ELSE FAdd(MulMask(Head(hidden), Head(mask)),
              sum_embeddings(Tail(hidden), Tail(mask)))

\* the token count as it is, without the lower bound
sum_maskUnclamped(mask) == Finite(SumInts(mask))

\* torch.clamp(input_mask_expanded.sum(1), min=1e-9)
sum_mask(mask) == IF SumInts(mask) < 1 THEN EPS ELSE Finite(SumInts(mask))

\* the mean over every position, masked or not
mean_poolingUnmasked(hidden, mask) ==
    FDiv(sum_embeddings(hidden, [i \in DOMAIN mask |-> 1]), sum_mask(mask))

\* mean_pooling(model_output, attention_mask) for one row
mean_pooling(hidden, mask) ==
    FDiv(sum_embeddings(hidden, mask), sum_mask(mask))

\* model identifiers
BGE_SMALL_NAME == "BAAI/bge-small-en-v1.5"

BGE_BASE_NAME == "BAAI/bge-base-en-v1.5"

\* embedding dimension of the models the scripts name
BGE_SMALL_DIM == 384
BGE_BASE_DIM == 768
E5_LARGE_DIM == 1024
EmbeddingDimension(name) ==
    CASE name = BGE_SMALL_NAME -> BGE_SMALL_DIM
      [] name = BGE_BASE_NAME -> BGE_BASE_DIM
      [] name = "intfloat/e5-large-v2" -> E5_LARGE_DIM
      [] OTHER -> 0

\* DEFAULT_MODEL_NAME of each script
DefaultModel(s) ==
    CASE s = MINILM -> "sentence-transformers/all-MiniLM-L6-v2"
      [] s = ST_CODE ->
            "flax-sentence-embeddings/st-codesearch-distilroberta-base"
      [] s = BGE_BASE -> BGE_BASE_NAME
      [] s = E5 -> "intfloat/e5-large-v2"
      [] s = CODEBERT -> "microsoft/codebert-base"
      [] OTHER -> BGE_SMALL_NAME

\* scripts whose main() takes the model identifier from the command line
HasModelOption(s) == s \notin {CODEBERT, DOWNLOAD_OPT}

\* the script can be run on this model identifier
AcceptsModel(s, name) == HasModelOption(s) \/ name = DefaultModel(s)

\* model identifiers the runs of a script are tried with
\* the default and one other model
ModelNames(s) ==
    {name \in {DefaultModel(s),
               IF DefaultModel(s) = BGE_SMALL_NAME
               THEN BGE_BASE_NAME ELSE BGE_SMALL_NAME} :
        AcceptsModel(s, name)}

\* the export wrapper's forward() ends with torch.nn.functional.normalize
Normalizes(s) == s \in {BGE_BASE, DYN_BATCH, GPU_FP16, DOWNLOAD_OPT}

Aborted == {"exited", "raised"}
Terminated == Aborted \cup {"done"}

(***************************************************************************)
(* Files below the output directory.                                       *)
(***************************************************************************)
NoPath == "none"
CustomPath == "custom_quantized.onnx"
TokenizerPath == "tokenizer"
MetadataPath == "metadata.json"
GraphPaths == {"model.onnx", "model_fp32.onnx", "model_quantized.onnx",
               CustomPath, "model_fp16.onnx", "model_optimized.onnx",
               "codebert_model.onnx"}
Paths == GraphPaths \cup {TokenizerPath, MetadataPath}

\* directories: a user-supplied --quantized_model_path is taken as it is and
\* need not lie in output_dir
OutputDir == "output_dir"
Elsewhere == "elsewhere"
DirOf(path) == IF path = CustomPath THEN Elsewhere ELSE OutputDir

\* directory tokenizer.save_pretrained writes to
TokenizerDir(s) == IF s = CODEBERT THEN "output_dir/tokenizer" ELSE OutputDir

\* model.onnx and the precision-suffixed names
PrecisionNamed == {"model.onnx", "model_fp32.onnx", "model_quantized.onnx",
                   "model_fp16.onnx"}

Absent == [kind |-> "absent", precision |-> "none", how |-> "none", out |-> <<>>]
Partial == [kind |-> "partial", precision |-> "none", how |-> "written", out |-> <<>>]
Graph(precision, out) ==
    [kind |-> "graph", precision |-> precision, how |-> "written", out |-> out]
TokenizerFiles ==
    [kind |-> "tokenizer", precision |-> "none", how |-> "written", out |-> <<>>]
Metadata ==
    [kind |-> "metadata", precision |-> "none", how |-> "written", out |-> <<>>]

\* the metadata dictionary of optimize_bge_for_gpu
METADATA_HIDDEN_SIZE == 384
METADATA_MAX_SEQUENCE_LENGTH == 512
NoMetadata ==
    [hidden_size |-> 0, max_sequence_length |-> 0, fp16 |-> FALSE,
     model |-> NoPath]
MetadataRecord(fp16) ==
    [hidden_size |-> METADATA_HIDDEN_SIZE,
     max_sequence_length |-> METADATA_MAX_SEQUENCE_LENGTH,
     fp16 |-> fp16,
     model |-> IF fp16 THEN "model_fp16.onnx" ELSE "model_optimized.onnx"]

\* onnx.load / InferenceSession succeed on a completely written graph only
Loadable(file) == file.kind = "graph"

\* os.rename(src, dst)
Rename(files, src, dst) ==
    [files EXCEPT ![dst] = [files[src] EXCEPT !.how = "moved"], ![src] = Absent]

\* os.remove(path) inside try/except: pass
RemoveIgnoringErrors(files, path, remove_ok) ==
    IF remove_ok THEN [files EXCEPT ![path] = Absent] ELSE files

temp_onnx_path(s, q) ==
    CASE s \in {MINILM, BGE_SMALL} -> IF q THEN "model_fp32.onnx" ELSE "model.onnx"
      [] s = GPU_FP16 -> "model_fp16.onnx"
      [] s = CODEBERT -> "codebert_model.onnx"
      [] OTHER -> "model.onnx"

final_onnx_path(s) == IF s = CODEBERT THEN "codebert_model.onnx" ELSE "model.onnx"

(***************************************************************************)
(* The model identifier's configuration.                                   *)
(***************************************************************************)
Attr(v) == [present |-> TRUE, value |-> v]
NoAttr == [present |-> FALSE, value |-> 0]

Config(mpe, np, msl, mml, tok, config_raises, tokenizer_raises) ==
    [max_position_embeddings |-> mpe, n_positions |-> np,
     max_sequence_length |-> msl, model_max_length |-> mml,
     tokenizer_model_max_length |-> tok,
     config_raises |-> config_raises, tokenizer_raises |-> tokenizer_raises]

\* if hasattr(config, attr): max_len = getattr(...); if max_len and max_len > 0
Usable(a) == a.present /\ a.value > 0

get_model_max_sequence_length(c) ==
    IF c.config_raises THEN DEFAULT_MAX_LEN
    ELSE IF Usable(c.max_position_embeddings) THEN c.max_position_embeddings.value
    ELSE IF Usable(c.n_positions) THEN c.n_positions.value
    ELSE IF Usable(c.max_sequence_length) THEN c.max_sequence_length.value
    ELSE IF Usable(c.model_max_length) THEN c.model_max_length.value
    ELSE IF c.tokenizer_raises THEN DEFAULT_MAX_LEN
    ELSE IF c.tokenizer_model_max_length.present
            /\ c.tokenizer_model_max_length.value < TOKENIZER_UPPER_BOUND
         THEN c.tokenizer_model_max_length.value
    ELSE DEFAULT_MAX_LEN

Min(a, b) == IF a <= b THEN a ELSE b

get_optimal_sequence_length_for_gpu(c) ==
    IF c.config_raises THEN GPU_SEQ_LEN
    ELSE IF Usable(c.max_position_embeddings)
         THEN Min(GPU_SEQ_LEN, c.max_position_embeddings.value)
    ELSE IF Usable(c.n_positions) THEN Min(GPU_SEQ_LEN, c.n_positions.value)
    ELSE IF Usable(c.max_sequence_length)
         THEN Min(GPU_SEQ_LEN, c.max_sequence_length.value)
    ELSE GPU_SEQ_LEN

\* model identifiers the runs are tried with
PipelineConfigs ==
    {Config(Attr(512), NoAttr, NoAttr, NoAttr, Attr(512), FALSE, FALSE),
     Config(Attr(64), NoAttr, NoAttr, NoAttr, Attr(64), FALSE, FALSE),
     Config(NoAttr, NoAttr, NoAttr, NoAttr, Attr(512), TRUE, FALSE)}

(***************************************************************************)
(* Shape policy of each script.                                            *)
(***************************************************************************)
DummyBatch(s) == IF s = DYN_BATCH THEN 2 ELSE 1

DummySeqLen(s, c) ==
    CASE s \in {MINILM, ST_CODE, E5, DYN_BATCH} -> DEFAULT_SEQ_LEN
      [] s = BGE_SMALL -> get_model_max_sequence_length(c)
      [] s = GPU_FP16 -> get_optimal_sequence_length_for_gpu(c)
      [] OTHER -> BGE_SEQ_LEN

DummyInput(s, c) == [batch |-> DummyBatch(s), seq |-> DummySeqLen(s, c)]

BatchAndSequence(name) == {<<name, 0>>, <<name, 1>>}
BatchOnly(name) == {<<name, 0>>}

\* a shape policy that declares the sequence axis dynamic whatever the option
DynamicAxesIgnoringOption(s, dyn_seq) ==
    BatchAndSequence("input_ids") \cup BatchAndSequence("attention_mask")
        \cup BatchOnly("sentence_embedding")

DynamicAxes(s, dyn_seq) ==
    CASE s \in {MINILM, BGE_SMALL, ST_CODE, BGE_BASE, E5, DYN_BATCH} ->
             BatchAndSequence("input_ids") \cup BatchAndSequence("attention_mask")
                \cup BatchOnly("sentence_embedding")
      [] s = CODEBERT ->
             BatchAndSequence("input_ids") \cup BatchAndSequence("attention_mask")
                \cup BatchAndSequence("last_hidden_state")
                \cup BatchOnly("pooler_output")
      [] s = GPU_FP16 ->
             BatchOnly("input_ids") \cup BatchOnly("attention_mask")
                \cup BatchOnly("sentence_embedding")
      [] s = DOWNLOAD_OPT ->
             IF dyn_seq
             THEN BatchAndSequence("input_ids") \cup BatchAndSequence("attention_mask")
                    \cup BatchOnly("sentence_embedding")
             ELSE BatchOnly("input_ids") \cup BatchOnly("attention_mask")
                    \cup BatchOnly("sentence_embedding")
      [] OTHER ->
             BatchAndSequence("input_ids") \cup BatchAndSequence("attention_mask")
                \cup BatchAndSequence("last_hidden_state")

\* precision of the weights torch.onnx.export is given
ExportPrecision(s, fp16) ==
    IF s = GPU_FP16 \/ (s \in {DYN_BATCH, DOWNLOAD_OPT} /\ fp16)
    THEN "fp16" ELSE "fp32"

(***************************************************************************)
(* Outputs on the verifier's sample text, in units of 1e-6.                *)
(***************************************************************************)
RefOutputs == {<<600000, 800000>>}

Drifted(ref, k) == [ref EXCEPT ![1] = @ + k * DRIFT_STEP]

\* what an exported, optimized or quantized graph may compute on the sample
GraphOutputs(ref) ==
    {Drifted(ref, k) : k \in 0..MaxDrift} \cup {SubSeq(ref, 1, Len(ref) - 1)}

Abs(x) == IF x < 0 THEN -x ELSE x

\* np.allclose(a, b, atol): |a - b| <= atol + rtol * |b|, rtol = 1e-5
allclose(a, b, atol) ==
    \A i \in 1..Len(a) :
        Abs(a[i] - b[i]) * RTOL_INV <= atol * RTOL_INV + Abs(b[i])

(***************************************************************************)
(* Inputs the verifier, the benchmark and the inference test feed to the   *)
(* exported graph. Every sample text of a run has text_tokens tokens.      *)
(***************************************************************************)
\* token counts of a sample sentence: word pieces, or one token per character
TextTokenCounts == {12, 66}

\* width of tokenizer(text, padding=True, truncation=True, max_length=limit)
Tokenize(tokens, limit) == Min(tokens, limit)

\* width of tokenizer(text, padding=True, truncation=True)
TokenizeToModelMax(tokens, c) ==
    IF c.tokenizer_model_max_length.present
    THEN Min(tokens, c.tokenizer_model_max_length.value)
    ELSE tokens

\* max_length argument of the verifier's tokenizer call
VerifierMaxLength(s, c) ==
    CASE s \in {MINILM, ST_CODE, E5} -> DEFAULT_SEQ_LEN
      [] s = BGE_SMALL -> get_model_max_sequence_length(c)
      [] s = GPU_FP16 -> get_optimal_sequence_length_for_gpu(c)
      [] OTHER -> BGE_SEQ_LEN

\* batch sizes of the verifier's session.run calls
VerifierBatchSizes(s) ==
    CASE s = GPU_FP16 -> {batch_size \in {1, 4, 8} : batch_size <= 4}
      [] s = BGE_BASE -> {1, 3}
      [] OTHER -> {1}

\* codebert feeds torch.ones(1, 512), the others a tokenized sample
VerifierSeqLen(s, c, tokens) ==
    IF s = CODEBERT THEN BGE_SEQ_LEN
    ELSE Tokenize(tokens, VerifierMaxLength(s, c))

\* sample texts of a run of batch size b, numbered from 0: the first b of
\* test_texts; convert_bge_base_model runs text alone and batch_texts together
VerifierTexts(s, b) == IF s = BGE_BASE /\ b > 1 THEN 1..b ELSE 0..(b - 1)

VerifierInputs(s, c, tokens) ==
    {[batch |-> b, seq |-> VerifierSeqLen(s, c, tokens),
      texts |-> VerifierTexts(s, b)] : b \in VerifierBatchSizes(s)}

\* scripts whose verifier compares a row of a batched run with the output
\* of the same text run alone
ComparesBatchRows(s) == s \in {}

\* inputs of benchmark_model / test_padding_efficiency
BenchmarkInputs(s, dyn_seq, c, tokens) ==
    IF s = DYN_BATCH
    THEN {[batch |-> 1, seq |-> BGE_SEQ_LEN, texts |-> {0}],
          [batch |-> 1, seq |-> Tokenize(tokens, BGE_SEQ_LEN), texts |-> {0}]}
    ELSE IF dyn_seq
         THEN {[batch |-> 1, seq |-> TokenizeToModelMax(tokens, c),
                texts |-> {0}]}
         ELSE {[batch |-> 1, seq |-> BGE_SEQ_LEN, texts |-> {0}]}

\* inputs of the batch-size loop of optimize_bge_for_gpu
\* for batch_size in [1, 4, 8, 16]
BatchOrder == <<1, 4, 8, 16>>
BatchSizes == {BatchOrder[i] : i \in DOMAIN BatchOrder}

TestInferenceInputs(tokens) ==
    {[batch |-> b, seq |-> Tokenize(tokens, BGE_SEQ_LEN),
      texts |-> 0..(Min(b, 3) - 1)] : b \in BatchSizes}

\* one inference attempt of the test loop
Attempt(b, path, ok) == [batch |-> b, path |-> path, ok |-> ok]

\* an IO-binding failure that is not caught
AttemptsOfBatchNoFallback(b, io_fails, run_fails) ==
    IF b \notin io_fails
    THEN <<Attempt(b, "io_binding", TRUE)>>
    ELSE <<Attempt(b, "io_binding", FALSE)>>

\* the try/except of one iteration: inference with IO binding and, when
\* that raises, session.run for the same batch
AttemptsOfBatch(b, io_fails, run_fails) ==
    IF b \notin io_fails
    THEN <<Attempt(b, "io_binding", TRUE)>>
    ELSE <<Attempt(b, "io_binding", FALSE),
           Attempt(b, "standard", b \notin run_fails)>>

\* an iteration raised: its last attempt failed
LoopRaised(loop) == loop # <<>> /\ ~loop[Len(loop)].ok

\* the loop over the batch sizes; an exception leaving an iteration ends it
RECURSIVE TestLoop(_, _, _)
TestLoop(batches, io_fails, run_fails) ==
    IF batches = <<>> THEN <<>>
    ELSE LET this == AttemptsOfBatch(Head(batches), io_fails, run_fails)
         IN  IF LoopRaised(this) THEN this
             ELSE this \o TestLoop(Tail(batches), io_fails, run_fails)

\* session.run accepts an input whose non-dynamic axes have the traced size
Accepts(axes, traced, input) ==
    /\ <<"input_ids", 0>> \in axes \/ input.batch = traced.batch
    /\ <<"input_ids", 1>> \in axes \/ input.seq = traced.seq

(***************************************************************************)
(* Order of the stages in each script.                                     *)
(***************************************************************************)
\* a load failure that is printed but not acted on
LoadFailurePcSwallowed(s) == "export"

\* what a failed checkpoint load does to the run
LoadFailurePc(s) == IF LoadGuarded(s) THEN "exited" ELSE "raised"

\* what a failed torch.onnx.export does to the run
ExportFailurePc(s) == IF ExportGuarded(s) THEN "exited" ELSE "raised"

AfterExport(s, q) ==
    CASE HasQuantizeOption(s) -> IF q THEN "quantize" ELSE "save_tokenizer"
      [] s \in {GPU_FP16, DOWNLOAD_OPT, OPTIMIZE_GPU} -> "optimize"
      [] OTHER -> "save_tokenizer"

AfterSaveTokenizer(s, skip, bench) ==
    CASE s = OPTIMIZE_GPU -> "metadata"
      [] s = CODEBERT -> "verify"
      [] HasSkipOption(s) -> IF skip THEN "report" ELSE "verify"
      [] OTHER -> IF bench THEN "benchmark" ELSE "report"

(***************************************************************************)
(* ONNX graphs, as far as the initializer pruning of                       *)
(* download_optimized_bge_model looks at them.                             *)
(***************************************************************************)
\* graphs have up to MaxNodes nodes
MaxNodes == 2
\* the pruning is applied up to MaxPasses times in a row
MaxPasses == 2

GraphInputName == "input_ids"
InitializerNames == {"weight", "bias"}
NodeOutputName == <<"hidden", "pooled", "sentence_embedding">>

\* names a node at position i may consume: what precedes it in the graph
NamesBefore(i) ==
    {GraphInputName} \cup InitializerNames
        \cup {NodeOutputName[j] : j \in 1..(i - 1)}

\* body: names of the enclosing graph that the node's subgraph attribute reads
Node(op_type, input, output, body) ==
    [op_type |-> op_type, input |-> input, output |-> output, body |-> body]

OpTypes == {"Relu", "Add", "If"}

NodesAt(i) ==
    {Node("Relu", {a}, NodeOutputName[i], {}) : a \in NamesBefore(i)}
    \cup {Node("Add", pair, NodeOutputName[i], {}) :
              pair \in {q \in SUBSET NamesBefore(i) : Cardinality(q) = 2}}
    \cup {Node("If", {a}, NodeOutputName[i], {c}) :
              a \in NamesBefore(i), c \in InitializerNames}

NodeLists(n) == {nodes \in [1..n -> UNION {NodesAt(i) : i \in 1..n}] :
                    \A i \in 1..n : nodes[i] \in NodesAt(i)}

InitializerLists ==
    {<<>>} \cup {<<a>> : a \in InitializerNames}
           \cup {<<a, b>> : a \in InitializerNames, b \in InitializerNames}

NoGraph == [input |-> {}, initializer |-> <<>>, node |-> <<>>, output |-> {}]

ElementsOf(list) == {list[i] : i \in DOMAIN list}

\* names the graph produces before node i runs
ProducedBefore(g, i) ==
    g.input \cup ElementsOf(g.initializer)
        \cup {g.node[j].output : j \in 1..(i - 1)}

\* onnx.checker / InferenceSession: single assignment, every name consumed
\* by a node (or by its subgraph) is produced earlier, every declared output
\* is produced
WellFormed(g) ==
    /\ \A i, j \in DOMAIN g.initializer :
           i # j => g.initializer[i] # g.initializer[j]
    /\ \A i, j \in DOMAIN g.node : i # j => g.node[i].output # g.node[j].output
    /\ \A i \in DOMAIN g.node :
           /\ g.node[i].output \notin g.input \cup ElementsOf(g.initializer)
           /\ g.node[i].input \cup g.node[i].body \subseteq ProducedBefore(g, i)
    /\ g.output # {}
    /\ g.output \subseteq ProducedBefore(g, Len(g.node) + 1)

\* the graphs the pruning is tried on, well-formed or not
Graphs ==
    [input : {{GraphInputName}},
     initializer : InitializerLists,
     node : UNION {NodeLists(n) : n \in 0..MaxNodes},
     output : {{o} : o \in NamesBefore(MaxNodes + 1)}]

\* for node in onnx_model.graph.node: all_inputs.update(node.input)
all_inputs(g) == UNION {g.node[i].input : i \in DOMAIN g.node}

IsUsed(g, init) == init \in all_inputs(g)

\* a selection that also drops the first initializer of the list
used_initializersButFirst(g) ==
    IF g.initializer = <<>> THEN <<>>
    ELSE SelectSeq(Tail(g.initializer), LAMBDA init : IsUsed(g, init))

\* used_initializers: the initializers whose name is in all_inputs, in order
used_initializers(g) == SelectSeq(g.initializer, LAMBDA init : IsUsed(g, init))

\* del graph.initializer[:]; graph.initializer.extend(used_initializers)
RemoveUnusedInitializers(g) == [g EXCEPT !.initializer = used_initializers(g)]

\* operator-count histogram
Histogram(g) ==
    [op \in OpTypes |->
        Cardinality({i \in DOMAIN g.node : g.node[i].op_type = op})]

(***************************************************************************)
(* simplify_model of simplify_onnx_model.py: what it holds in memory and   *)
(* the three files it touches.                                            *)
(***************************************************************************)
\* simplify_model is tried with check_n in 0..MaxCheckN
MaxCheckN == 2

InputPath == "input_path"
TempPath == "output_path.temp"
OutputPath == "output_path"
SimplifyPaths == {InputPath, TempPath, OutputPath}

NoFile == [kind |-> "absent", content |-> "none", check |-> "none"]
PartialFile == [kind |-> "partial", content |-> "none", check |-> "none"]
\* a file that was at the path before simplify_model was called
StaleFile == [kind |-> "graph", content |-> "stale", check |-> "none"]
OriginalFile == [kind |-> "graph", content |-> "original", check |-> "none"]

NoModel == [content |-> "none", check |-> "none"]

\* check: what onnxsim's comparison of the simplified graph with the
\* original on random inputs said; with check_n = 0 it is not run
Simplified(n, flag) ==
    [content |-> "simplified",
     check |-> IF n = 0 THEN "not_evaluated"
               ELSE IF flag THEN "verified" ELSE "not_verified"]

\* the check flag onnxsim.simplify returns
CheckFlag(n, flag) == IF n = 0 THEN "True" ELSE IF flag THEN "True" ELSE "False"

\* onnx.save(model, path)
SavedModel(m) == [kind |-> "graph", content |-> m.content, check |-> m.check]

\* optimizer.optimize_model(temp_path).save_model_to_file(output_path)
OptimizedFile(temp) == [temp EXCEPT !.content = "optimized"]

\* the initializer pruning is not being examined
PruningAtRest ==
    /\ graph = NoGraph
    /\ saved = NoGraph
    /\ passes = 0

\* simplify_model is not being examined
SimplifierAtRest ==
    /\ check_n = 0
    /\ simplify_pc = "none"
    /\ model_simp = NoModel
    /\ check = "unset"
    /\ disk = [p \in SimplifyPaths |-> NoFile]

\* no function is being examined on its own
\* mean_pooling is not being called
PoolingAtRest ==
    /\ token_embeddings = <<>>
    /\ attention_mask = <<>>
    /\ sentence_embedding = NaN
    /\ pool_pc = "none"
    /\ padding_change = "none"

\* get_model_max_sequence_length is not being called on its own
LookupAtRest ==
    /\ lookup_config = Config(NoAttr, NoAttr, NoAttr, NoAttr, NoAttr, TRUE, TRUE)
    /\ detected_max_len = 0
    /\ lookup_pc = "none"

\* check_overlaps is not being called
OverlapAtRest ==
    /\ chunks = <<>>
    /\ overlaps = <<>>
    /\ overlap_pc = "none"

PureAtRest == PoolingAtRest /\ LookupAtRest /\ OverlapAtRest

UnitsAtRest == PruningAtRest /\ SimplifierAtRest /\ PureAtRest

\* no conversion script is running
PipelineAtRest ==
    /\ script = DOWNLOAD_OPT
    /\ quantized = FALSE
    /\ quantized_model_path = NoPath
    /\ skip_verification = FALSE
    /\ use_fp16 = FALSE
    /\ dynamic_sequence = FALSE
    /\ benchmark = FALSE
    /\ model_name = BGE_SMALL_NAME
    /\ config \in {c \in PipelineConfigs : c.config_raises}
    /\ ref_out \in RefOutputs
    /\ text_tokens = 0
    /\ fed = {}
    /\ max_length = 0
    /\ pc = "done"
    /\ fs = [p \in Paths |-> Absent]
    /\ onnx_path = NoPath
    /\ ran = <<>>
    /\ failed = {}
    /\ dummy = [batch |-> 0, seq |-> 0]
    /\ dynamic_axes = {}
    /\ verdict = "none"
    /\ ran_reference = FALSE
    /\ atol_used = 0
    /\ reported = FALSE
    /\ metadata = NoMetadata
    /\ attempts = <<>>
    /\ rewrite_failed = NoRewrite
    /\ rewrites_applied = {}

(***************************************************************************)
(* Initial state: main() has parsed its arguments, nothing is written.     *)
(***************************************************************************)
Init ==
    /\ script \in Scripts
    /\ quantized \in (IF HasQuantizeOption(script) THEN BOOLEAN ELSE {FALSE})
    /\ quantized_model_path \in
           (IF script = ST_CODE THEN {NoPath, CustomPath} ELSE {NoPath})
    /\ skip_verification \in (IF HasSkipOption(script) THEN BOOLEAN ELSE {FALSE})
    /\ use_fp16 \in (IF script \in {DYN_BATCH, DOWNLOAD_OPT, OPTIMIZE_GPU}
                     THEN BOOLEAN ELSE {FALSE})
    /\ dynamic_sequence \in (IF script = DOWNLOAD_OPT THEN BOOLEAN ELSE {FALSE})
    /\ benchmark \in (IF HasBenchmarkOption(script) THEN BOOLEAN ELSE {FALSE})
    /\ model_name \in ModelNames(script)
    /\ config \in PipelineConfigs
    /\ ref_out \in RefOutputs
    /\ text_tokens \in TextTokenCounts
    /\ fed = {}
    /\ max_length = 0
    /\ pc = "load"
    /\ fs = [p \in Paths |-> Absent]
    /\ onnx_path = NoPath
    /\ ran = <<>>
    /\ failed = {}
    /\ dummy = [batch |-> 0, seq |-> 0]
    /\ dynamic_axes = {}
    /\ verdict = "none"
    /\ ran_reference = FALSE
    /\ atol_used = 0
    /\ reported = FALSE
    /\ metadata = NoMetadata
    /\ attempts = <<>>
    /\ rewrite_failed = NoRewrite
    /\ rewrites_applied = {}
    /\ UnitsAtRest

(***************************************************************************)
(* AutoTokenizer.from_pretrained / AutoModel.from_pretrained.              *)
(***************************************************************************)
LoadCheckpoint(ok) ==
    /\ pc = "load"
    /\ ran' = Append(ran, "load")
    /\ IF ok
       THEN /\ pc' = "export"
            /\ failed' = failed
       ELSE /\ pc' = LoadFailurePc(script)
            /\ failed' = failed \cup {"load"}
    /\ UNCHANGED <<unit_vars, metadata, attempts, rewrites, options, fs,
                   onnx_path, dummy, dynamic_axes, fed, max_length, verdict,
                   ran_reference, atol_used, reported>>

(***************************************************************************)
(* Dummy input, dynamic axes, output paths and torch.onnx.export.          *)
(***************************************************************************)
Export(outcome, out) ==
    /\ pc = "export"
    /\ ran' = Append(ran, "export")
    /\ dummy' = DummyInput(script, config)
    /\ dynamic_axes' = DynamicAxes(script, dynamic_sequence)
    /\ onnx_path' = final_onnx_path(script)
    /\ LET path == temp_onnx_path(script, quantized)
       IN  CASE outcome = "ok" ->
                  /\ fs' = [fs EXCEPT ![path] =
                               Graph(ExportPrecision(script, use_fp16), out)]
                  /\ pc' = AfterExport(script, quantized)
                  /\ failed' = failed
             [] outcome = "raises" ->
                  /\ fs' = fs
                  /\ pc' = ExportFailurePc(script)
                  /\ failed' = failed \cup {"export"}
             [] outcome = "raises_while_writing" ->
                  /\ fs' = [fs EXCEPT ![path] = Partial]
                  /\ pc' = ExportFailurePc(script)
                  /\ failed' = failed \cup {"export"}
    /\ UNCHANGED <<unit_vars, metadata, attempts, rewrites, options, fed,
                   max_length, verdict, ran_reference, atol_used, reported>>

ExportOutcomes == {"ok", "raises", "raises_while_writing"}

(***************************************************************************)
(* Quantization.                                                           *)
(***************************************************************************)
\* quantize_onnx_model + the if/else after it (MiniLM, BGE small)
QuantizeWithFallback(outcome, remove_ok, out) ==
    /\ pc = "quantize"
    /\ script \in {MINILM, BGE_SMALL}
    /\ ran' = Append(ran, "quantize")
    /\ LET temp == temp_onnx_path(script, quantized)
           final == final_onnx_path(script)
       IN  CASE outcome = "ok" ->
                  /\ fs' = RemoveIgnoringErrors(
                               [fs EXCEPT ![final] = Graph("int8", out)],
                               temp, remove_ok)
                  /\ failed' = failed
             [] outcome \in {"ImportError", "Exception"} ->
                  /\ fs' = Rename(fs, temp, final)
                  /\ failed' = failed \cup {"quantize"}
             [] outcome = "Exception_while_writing" ->
                  /\ fs' = Rename([fs EXCEPT ![final] = Partial], temp, final)
                  /\ failed' = failed \cup {"quantize"}
    /\ pc' = "save_tokenizer"
    /\ UNCHANGED <<unit_vars, metadata, attempts, rewrites, options,
                   onnx_path, dummy, dynamic_axes, fed, max_length, verdict,
                   ran_reference, atol_used, reported>>

FallbackOutcomes == {"ok", "ImportError", "Exception", "Exception_while_writing"}

\* the "if quantize:" block of convert_st_code_model
QuantizeOrExit(outcome, out) ==
    /\ pc = "quantize"
    /\ script = ST_CODE
    /\ ran' = Append(ran, "quantize")
    /\ LET qpath == IF quantized_model_path = NoPath
                    THEN "model_quantized.onnx" ELSE quantized_model_path
       IN  CASE outcome = "ok" ->
                  /\ fs' = [fs EXCEPT ![qpath] = Graph("int8", out)]
                  /\ onnx_path' = qpath
                  /\ pc' = "save_tokenizer"
                  /\ failed' = failed
             [] outcome \in {"quantize_dynamic_is_None", "Exception"} ->
                  /\ fs' = fs
                  /\ onnx_path' = onnx_path
                  /\ pc' = "exited"
                  /\ failed' = failed \cup {"quantize"}
             [] outcome = "Exception_while_writing" ->
                  /\ fs' = [fs EXCEPT ![qpath] = Partial]
                  /\ onnx_path' = onnx_path
                  /\ pc' = "exited"
                  /\ failed' = failed \cup {"quantize"}
    /\ UNCHANGED <<unit_vars, metadata, attempts, rewrites, options, dummy,
                   dynamic_axes, fed, max_length, verdict, ran_reference,
                   atol_used, reported>>

ExitOutcomes == {"ok", "quantize_dynamic_is_None", "Exception",
                 "Exception_while_writing"}


(***************************************************************************)
(* Graph optimization.                                                     *)
(***************************************************************************)
\* the rewrites each optimizing script asks for
Catalogue(s) ==
    CASE s = GPU_FP16 ->
             {"eliminate_identity", "eliminate_dropout",
              "eliminate_unused_initializer", "extract_constant_to_initializer",
              "fuse_add_bias_into_conv", "fuse_bn_into_conv",
              "fuse_consecutive_concats", "fuse_consecutive_reduce_unsqueeze",
              "fuse_consecutive_squeezes", "fuse_consecutive_transposes",
              "fuse_matmul_add_bias_into_gemm", "fuse_pad_into_conv",
              "fuse_transpose_into_gemm", "lift_lexical_references"}
      [] s = OPTIMIZE_GPU ->
             {"attention", "layer_norm", "gelu", "bias_gelu",
              "gelu_approximation"}
      [] s = DOWNLOAD_OPT -> {"remove_unused_initializers"}
      [] OTHER -> {}

\* optimize_onnx_model_for_gpu + the if/else after it (GPU fp16 script)
OptimizeForGpu(outcome, remove_ok, out) ==
    /\ pc = "optimize"
    /\ script = GPU_FP16
    /\ ran' = Append(ran, "optimize")
    /\ LET temp == temp_onnx_path(script, quantized)
           final == final_onnx_path(script)
       IN  CASE outcome = "ok" ->
                  /\ fs' = RemoveIgnoringErrors(
                               [fs EXCEPT ![final] = Graph(fs[temp].precision, out)],
                               temp, remove_ok)
                  /\ failed' = failed
                  /\ rewrite_failed' = NoRewrite
                  /\ rewrites_applied' = Catalogue(script)
             [] outcome = "ImportError" ->
                  /\ fs' = Rename(fs, temp, final)
                  /\ failed' = failed \cup {"optimize"}
                  /\ rewrite_failed' = NoRewrite
                  /\ rewrites_applied' = {}
             [] outcome = "Exception" ->
                  /\ fs' = Rename(fs, temp, final)
                  /\ failed' = failed \cup {"optimize"}
                  /\ rewrite_failed' \in Catalogue(script)
                  /\ rewrites_applied' = {}
             [] outcome = "Exception_while_writing" ->
                  /\ fs' = Rename([fs EXCEPT ![final] = Partial], temp, final)
                  /\ failed' = failed \cup {"optimize"}
                  /\ rewrite_failed' = NoRewrite
                  /\ rewrites_applied' = {}
    /\ pc' = "save_tokenizer"
    /\ UNCHANGED <<unit_vars, metadata, attempts, options, onnx_path, dummy,
                   dynamic_axes, fed, max_length, verdict, ran_reference,
                   atol_used, reported>>

\* the "Apply basic ONNX optimizations" try block of download_optimized_bge_model
PruneInitializers(outcome) ==
    /\ pc = "optimize"
    /\ script = DOWNLOAD_OPT
    /\ ran' = Append(ran, "optimize")
    /\ LET model_path == final_onnx_path(script)
       IN  CASE outcome = "ok" ->
                  /\ fs' = [fs EXCEPT ![model_path] =
                               Graph(fs[model_path].precision, fs[model_path].out)]
                  /\ failed' = failed
                  /\ rewrite_failed' = NoRewrite
                  /\ rewrites_applied' = Catalogue(script)
             [] outcome = "ImportError" ->
                  /\ fs' = fs
                  /\ failed' = failed \cup {"optimize"}
                  /\ rewrite_failed' = NoRewrite
                  /\ rewrites_applied' = {}
             [] outcome = "Exception" ->
                  /\ fs' = fs
                  /\ failed' = failed \cup {"optimize"}
                  /\ rewrite_failed' \in Catalogue(script)
                  /\ rewrites_applied' = {}
             [] outcome = "Exception_while_writing" ->
                  /\ fs' = [fs EXCEPT ![model_path] = Partial]
                  /\ failed' = failed \cup {"optimize"}
                  /\ rewrite_failed' = NoRewrite
                  /\ rewrites_applied' = {}
    /\ pc' = "save_tokenizer"
    /\ UNCHANGED <<unit_vars, metadata, attempts, options, onnx_path, dummy,
                   dynamic_axes, fed, max_length, verdict, ran_reference,
                   atol_used, reported>>

\* optimizer.optimize_model + save_model_to_file of optimize_bge_for_gpu
OptimizeModel(outcome, out) ==
    /\ pc = "optimize"
    /\ script = OPTIMIZE_GPU
    /\ ran' = Append(ran, "optimize")
    /\ LET optimized_path == "model_optimized.onnx"
       IN  CASE outcome = "ok" ->
                  /\ fs' = [fs EXCEPT ![optimized_path] = Graph("fp32", out)]
                  /\ onnx_path' = optimized_path
                  /\ pc' = IF use_fp16 THEN "convert_fp16" ELSE "test_inference"
                  /\ failed' = failed
                  /\ rewrite_failed' = NoRewrite
                  /\ rewrites_applied' = Catalogue(script)
             [] outcome = "raises" ->
                  /\ fs' = fs
                  /\ onnx_path' = onnx_path
                  /\ pc' = "raised"
                  /\ failed' = failed \cup {"optimize"}
                  /\ rewrite_failed' \in Catalogue(script)
                  /\ rewrites_applied' = {}
             [] outcome = "raises_while_writing" ->
                  /\ fs' = [fs EXCEPT ![optimized_path] = Partial]
                  /\ onnx_path' = onnx_path
                  /\ pc' = "raised"
                  /\ failed' = failed \cup {"optimize"}
                  /\ rewrite_failed' = NoRewrite
                  /\ rewrites_applied' = {}
    /\ UNCHANGED <<unit_vars, metadata, attempts, options, dummy,
                   dynamic_axes, fed, max_length, verdict, ran_reference,
                   atol_used, reported>>

\* the "if fp16:" block of optimize_bge_for_gpu
ConvertFp16(outcome, out) ==
    /\ pc = "convert_fp16"
    /\ ran' = Append(ran, "convert_fp16")
    /\ LET fp16_path == "model_fp16.onnx"
       IN  CASE outcome = "ok" ->
                  /\ fs' = [fs EXCEPT ![fp16_path] = Graph("fp16", out)]
                  /\ onnx_path' = fp16_path
                  /\ pc' = "test_inference"
                  /\ failed' = failed
             [] outcome = "raises" ->
                  /\ fs' = fs
                  /\ onnx_path' = onnx_path
                  /\ pc' = "raised"
                  /\ failed' = failed \cup {"convert_fp16"}
             [] outcome = "raises_while_writing" ->
                  /\ fs' = [fs EXCEPT ![fp16_path] = Partial]
                  /\ onnx_path' = onnx_path
                  /\ pc' = "raised"
                  /\ failed' = failed \cup {"convert_fp16"}
    /\ UNCHANGED <<unit_vars, metadata, attempts, rewrites, options, dummy,
                   dynamic_axes, fed, max_length, verdict, ran_reference,
                   atol_used, reported>>

\* InferenceSession + the batch-size loop of optimize_bge_for_gpu
TestInference(session_ok, io_fails, run_fails) ==
    /\ pc = "test_inference"
    /\ ran' = Append(ran, "test_inference")
    /\ IF ~session_ok
       THEN /\ attempts' = <<>>
            /\ fed' = fed
            /\ pc' = "raised"
            /\ failed' = failed \cup {"test_inference"}
       ELSE LET loop == TestLoop(BatchOrder, io_fails, run_fails)
            IN  /\ attempts' = loop
                /\ fed' = fed \cup
                       {input \in TestInferenceInputs(text_tokens) :
                           \E i \in DOMAIN loop : loop[i].batch = input.batch}
                /\ IF LoopRaised(loop)
                   THEN /\ pc' = "raised"
                        /\ failed' = failed \cup {"test_inference"}
                   ELSE /\ pc' = "save_tokenizer"
                        /\ failed' = failed
    /\ UNCHANGED <<unit_vars, metadata, rewrites, options, fs, onnx_path,
                   dummy, dynamic_axes, max_length, verdict, ran_reference,
                   atol_used, reported>>

(***************************************************************************)
(* tokenizer.save_pretrained and the return to main.                       *)
(***************************************************************************)
SaveTokenizer(ok) ==
    /\ pc = "save_tokenizer"
    /\ ran' = Append(ran, "save_tokenizer")
    /\ IF ok
       THEN /\ fs' = [fs EXCEPT ![TokenizerPath] = TokenizerFiles]
            /\ pc' = AfterSaveTokenizer(script, skip_verification, benchmark)
            /\ failed' = failed
       ELSE /\ fs' = fs
            /\ pc' = "raised"
            /\ failed' = failed \cup {"save_tokenizer"}
    /\ UNCHANGED <<unit_vars, metadata, attempts, rewrites, options,
                   onnx_path, dummy, dynamic_axes, fed, max_length, verdict,
                   ran_reference, atol_used, reported>>

\* json.dump(metadata) of optimize_bge_for_gpu
WriteMetadata(ok) ==
    /\ pc = "metadata"
    /\ ran' = Append(ran, "metadata")
    /\ IF ok
       THEN /\ fs' = [fs EXCEPT ![MetadataPath] = Metadata]
            /\ metadata' = MetadataRecord(use_fp16)
            /\ pc' = "report"
            /\ failed' = failed
       ELSE /\ fs' = fs
            /\ metadata' = metadata
            /\ pc' = "raised"
            /\ failed' = failed \cup {"metadata"}
    /\ UNCHANGED <<unit_vars, attempts, rewrites, options, onnx_path, dummy,
                   dynamic_axes, fed, max_length, verdict, ran_reference,
                   atol_used, reported>>

\* test_padding_efficiency / benchmark_model: all inside try/except
Benchmark(ok) ==
    /\ pc = "benchmark"
    /\ ran' = Append(ran, "benchmark")
    /\ failed' = IF ok THEN failed ELSE failed \cup {"benchmark"}
    /\ fed' = IF ok
              THEN fed \cup BenchmarkInputs(script, dynamic_sequence, config,
                                           text_tokens)
              ELSE fed
    /\ pc' = "report"
    /\ UNCHANGED <<unit_vars, metadata, attempts, rewrites, options, fs,
                   onnx_path, dummy, dynamic_axes, max_length, verdict,
                   ran_reference, atol_used, reported>>

(***************************************************************************)
(* The verify function of each script. Nothing it does leaves the          *)
(* function: every exception is caught and printed.                        *)
(***************************************************************************)
\* scripts whose verifier loads the reference model and compares with it
ComparesWithReference(s, q) ==
    CASE s = MINILM -> ~q
      [] s \in {ST_CODE, BGE_BASE, E5} -> TRUE
      [] OTHER -> FALSE

\* the shape test and np.allclose of verify_onnx_model
CompareVerdict(pytorch_embedding, onnx_embedding) ==
    IF Len(pytorch_embedding) = Len(onnx_embedding)
    THEN IF allclose(pytorch_embedding, onnx_embedding, ATOL)
         THEN "match" ELSE "differ"
    ELSE "shape_mismatch"

Verify(tools_ok) ==
    /\ pc = "verify"
    /\ ran' = Append(ran, "verify")
    /\ LET file == fs[onnx_path]
           inputs == VerifierInputs(script, config, text_tokens)
           first == CHOOSE i \in inputs : \A j \in inputs : i.batch <= j.batch
       IN  IF ~tools_ok \/ ~Loadable(file)
           THEN /\ verdict' = "error"
                /\ ran_reference' = FALSE
                /\ atol_used' = 0
                /\ fed' = fed
                /\ max_length' = max_length
                /\ failed' = failed \cup {"verify"}
           ELSE IF ~Accepts(dynamic_axes, dummy, first)
           THEN /\ verdict' = "error"
                /\ ran_reference' = FALSE
                /\ atol_used' = 0
                /\ fed' = fed \cup {first}
                /\ max_length' = VerifierMaxLength(script, config)
                /\ failed' = failed \cup {"verify"}
           ELSE /\ failed' = failed
                /\ fed' = fed \cup inputs
                /\ max_length' = IF script = CODEBERT
                                 THEN 0 ELSE VerifierMaxLength(script, config)
                /\ IF ComparesWithReference(script, quantized)
                   THEN /\ verdict' = CompareVerdict(ref_out, file.out)
                        /\ ran_reference' = TRUE
                        /\ atol_used' = IF Len(ref_out) = Len(file.out)
                                        THEN ATOL ELSE 0
                   ELSE /\ verdict' = IF script = MINILM
                                      THEN "skipped" ELSE "no_reference"
                        /\ ran_reference' = FALSE
                        /\ atol_used' = 0
    /\ pc' = "report"
    /\ UNCHANGED <<unit_vars, metadata, attempts, rewrites, options, fs,
                   onnx_path, dummy, dynamic_axes, reported>>

(***************************************************************************)
(* The closing banner of main ("... Conversion Process Complete").         *)
(***************************************************************************)
Report ==
    /\ pc = "report"
    /\ ran' = Append(ran, "report")
    /\ reported' = TRUE
    /\ pc' = "done"
    /\ UNCHANGED <<unit_vars, metadata, attempts, rewrites, options, fs,
                   onnx_path, failed, dummy, dynamic_axes, fed, max_length,
                   verdict, ran_reference, atol_used>>

Next ==
    \/ \E ok \in BOOLEAN : LoadCheckpoint(ok)
    \/ \E outcome \in ExportOutcomes, out \in GraphOutputs(ref_out) :
           Export(outcome, out)
    \/ \E outcome \in FallbackOutcomes, remove_ok \in BOOLEAN,
          out \in GraphOutputs(ref_out) :
           QuantizeWithFallback(outcome, remove_ok, out)
    \/ \E outcome \in ExitOutcomes, out \in GraphOutputs(ref_out) :
           QuantizeOrExit(outcome, out)
    \/ \E outcome \in FallbackOutcomes, remove_ok \in BOOLEAN,
          out \in GraphOutputs(ref_out) :
           OptimizeForGpu(outcome, remove_ok, out)
    \/ \E outcome \in FallbackOutcomes : PruneInitializers(outcome)
    \/ \E outcome \in ExportOutcomes, out \in GraphOutputs(ref_out) :
           OptimizeModel(outcome, out)
    \/ \E outcome \in ExportOutcomes, out \in GraphOutputs(ref_out) :
           ConvertFp16(outcome, out)
    \/ \E session_ok \in BOOLEAN, io_fails \in SUBSET BatchSizes :
           \E run_fails \in SUBSET io_fails :
               TestInference(session_ok, io_fails, run_fails)
    \/ \E ok \in BOOLEAN : SaveTokenizer(ok)
    \/ \E ok \in BOOLEAN : WriteMetadata(ok)
    \/ \E ok \in BOOLEAN : Benchmark(ok)
    \/ \E tools_ok \in BOOLEAN : Verify(tools_ok)
    \/ Report

Spec == Init /\ [][Next]_vars

TypeOK ==
    /\ script \in Scripts
    /\ pc \in {"load", "export", "quantize", "optimize", "convert_fp16",
               "test_inference", "save_tokenizer", "metadata", "benchmark",
               "verify", "report"} \cup Terminated
    /\ onnx_path \in GraphPaths \cup {NoPath}
    /\ DOMAIN fs = Paths
    /\ verdict \in {"none", "error", "match", "differ", "shape_mismatch",
                    "skipped", "no_reference"}
    /\ model_name \in ModelNames(script)
    /\ metadata \in {NoMetadata, MetadataRecord(use_fp16)}
    /\ \A i \in DOMAIN attempts :
        /\ attempts[i].batch \in BatchSizes
        /\ attempts[i].path \in {"io_binding", "standard"}


(***************************************************************************)
(* The initializer pruning on its own: onnx.load(model_path), the pruning, *)
(* onnx.save(onnx_model, model_path), applied to a graph and then again to *)
(* what it saved.                                                          *)
(***************************************************************************)
PruneInit ==
    /\ PipelineAtRest
    /\ SimplifierAtRest
    /\ PureAtRest
    /\ graph \in Graphs
    /\ saved = graph
    /\ passes = 0

ApplyPruning ==
    /\ passes < MaxPasses
    /\ saved' = RemoveUnusedInitializers(saved)
    /\ passes' = passes + 1
    /\ UNCHANGED <<pipeline_vars, simplifier_vars, pure_vars, graph>>

PruneNext == ApplyPruning

PruneSpec == PruneInit /\ [][PruneNext]_vars

(***************************************************************************)
(* simplify_model(input_path, output_path, check_n) on its own.            *)
(***************************************************************************)
SimplifyInit ==
    /\ PipelineAtRest
    /\ PruningAtRest
    /\ PureAtRest
    /\ check_n \in 0..MaxCheckN
    /\ simplify_pc = "load"
    /\ model_simp = NoModel
    /\ check = "unset"
    /\ disk \in [SimplifyPaths -> {NoFile, StaleFile, OriginalFile}]
    /\ disk[InputPath] \in {NoFile, OriginalFile}
    /\ disk[TempPath] \in {NoFile, StaleFile}
    /\ disk[OutputPath] \in {NoFile, StaleFile}

\* model = onnx.load(input_path)
LoadInput ==
    /\ simplify_pc = "load"
    /\ simplify_pc' = IF disk[InputPath].kind = "graph"
                      THEN "simplify" ELSE "raised"
    /\ UNCHANGED <<pipeline_vars, pruning_vars, pure_vars, check_n,
                   model_simp, check, disk>>

\* the try block around the first onnxsim.simplify call
Simplify(outcome, flag) ==
    /\ simplify_pc = "simplify"
    /\ IF outcome = "returns"
       THEN /\ model_simp' = Simplified(check_n, flag)
            /\ check' = CheckFlag(check_n, flag)
            /\ simplify_pc' = "save_temp"
       ELSE /\ model_simp' = model_simp
            /\ check' = check
            /\ simplify_pc' = "fallback"
    /\ UNCHANGED <<pipeline_vars, pruning_vars, pure_vars, check_n, disk>>

\* the except block: onnxsim.simplify(model, check_n=1, ...)
SimplifyConservatively(outcome, flag) ==
    /\ simplify_pc = "fallback"
    /\ IF outcome = "returns"
       THEN /\ model_simp' = Simplified(1, flag)
            /\ check' = CheckFlag(1, flag)
            /\ simplify_pc' = "save_temp"
       ELSE /\ model_simp' = model_simp
            /\ check' = check
            /\ simplify_pc' = "raised"
    /\ UNCHANGED <<pipeline_vars, pruning_vars, pure_vars, check_n, disk>>

\* temp_path = output_path + ".temp"; onnx.save(model_simp, temp_path)
SaveTemp(outcome) ==
    /\ simplify_pc = "save_temp"
    /\ CASE outcome = "ok" ->
              /\ disk' = [disk EXCEPT ![TempPath] = SavedModel(model_simp)]
              /\ simplify_pc' = "optimize"
         [] outcome = "raises" ->
              /\ disk' = disk
              /\ simplify_pc' = "raised"
         [] outcome = "raises_while_writing" ->
              /\ disk' = [disk EXCEPT ![TempPath] = PartialFile]
              /\ simplify_pc' = "raised"
    /\ UNCHANGED <<pipeline_vars, pruning_vars, pure_vars, check_n,
                   model_simp, check>>

\* the try/except around optimize_model and save_model_to_file
OptimizeAndSave(outcome) ==
    /\ simplify_pc = "optimize"
    /\ CASE outcome = "ok" ->
              /\ disk' = [disk EXCEPT ![OutputPath] =
                               OptimizedFile(disk[TempPath])]
              /\ simplify_pc' = "cleanup"
         [] outcome \in {"optimize_raises", "save_raises"} ->
              /\ disk' = [disk EXCEPT ![OutputPath] = SavedModel(model_simp)]
              /\ simplify_pc' = "cleanup"
         [] outcome = "both_saves_raise" ->
              /\ disk' = [disk EXCEPT ![OutputPath] = PartialFile]
              /\ simplify_pc' = "cleanup_raising"
    /\ UNCHANGED <<pipeline_vars, pruning_vars, pure_vars, check_n,
                   model_simp, check>>

\* finally: if os.path.exists(temp_path): os.remove(temp_path)
RemoveTemp(remove_ok) ==
    /\ simplify_pc \in {"cleanup", "cleanup_raising"}
    /\ IF disk[TempPath].kind = "absent"
       THEN /\ disk' = disk
            /\ simplify_pc' = IF simplify_pc = "cleanup"
                              THEN "analyze" ELSE "raised"
       ELSE IF remove_ok
       THEN /\ disk' = [disk EXCEPT ![TempPath] = NoFile]
            /\ simplify_pc' = IF simplify_pc = "cleanup"
                              THEN "analyze" ELSE "raised"
       ELSE /\ disk' = disk
            /\ simplify_pc' = "raised"
    /\ UNCHANGED <<pipeline_vars, pruning_vars, pure_vars, check_n,
                   model_simp, check>>

\* the size and operation counts printed before return output_path
Analyze(ok) ==
    /\ simplify_pc = "analyze"
    /\ simplify_pc' = IF ok THEN "returned" ELSE "raised"
    /\ UNCHANGED <<pipeline_vars, pruning_vars, pure_vars, check_n,
                   model_simp, check, disk>>

SimplifyOutcomes == {"returns", "raises"}
SaveOutcomes == {"ok", "raises", "raises_while_writing"}
OptimizeOutcomes == {"ok", "optimize_raises", "save_raises", "both_saves_raise"}

SimplifyNext ==
    \/ LoadInput
    \/ \E outcome \in SimplifyOutcomes, flag \in BOOLEAN :
           Simplify(outcome, flag)
    \/ \E outcome \in SimplifyOutcomes, flag \in BOOLEAN :
           SimplifyConservatively(outcome, flag)
    \/ \E outcome \in SaveOutcomes : SaveTemp(outcome)
    \/ \E outcome \in OptimizeOutcomes : OptimizeAndSave(outcome)
    \/ \E remove_ok \in BOOLEAN : RemoveTemp(remove_ok)
    \/ \E ok \in BOOLEAN : Analyze(ok)

SimplifySpec == SimplifyInit /\ [][SimplifyNext]_vars

(***************************************************************************)
(* Properties.                                                             *)
(***************************************************************************)
Range(seq) == {seq[i] : i \in DOMAIN seq}

FinalFile == fs[final_onnx_path(script)]

VerificationEnabled == HasVerifier(script) /\ ~skip_verification

\* C1: a run in which some stage failed ends with the final output path
\* either empty or holding a complete bundle: a graph that was moved there
\* from a temporary path, together with its tokenizer files.
NoHalfWrittenBundle ==
    (failed # {} /\ pc \in Terminated) =>
        \/ FinalFile = Absent
        \/ /\ FinalFile.kind = "graph"
           /\ FinalFile.how = "moved"
           /\ fs[TokenizerPath].kind = "tokenizer"

\* some element of b is further than 1e-4 from the same element of a
ExceedsTolerance(a, b) ==
    /\ Len(a) = Len(b)
    /\ \E i \in 1..Len(a) : Abs(a[i] - b[i]) > ATOL

\* C2: when the verifier ran on a full-precision graph whose output is more
\* than 1e-4 away from the reference output, the run ends without the
\* bundle at the final path and without the "complete" banner.
FullPrecisionMismatchRejected ==
    (/\ pc \in Terminated
     /\ VerificationEnabled
     /\ "verify" \in Range(ran)
     /\ "verify" \notin failed
     /\ fs[onnx_path].precision = "fp32"
     /\ ExceedsTolerance(ref_out, fs[onnx_path].out)) =>
        /\ ~reported
        /\ FinalFile = Absent

\* C3: once the verifier has found the two output shapes to differ, the run
\* is aborted: it is in no later step and never prints the banner.
ShapeMismatchIsFatal ==
    verdict = "shape_mismatch" => (pc \in Aborted /\ ~reported)

\* C4: a failed quantizer does not abort the run: unless a later stage
\* fails, the run goes on, saves the tokenizer and hands main a loadable
\* graph.
QuantizerFailureDegrades ==
    ("quantize" \in failed /\ "save_tokenizer" \notin failed) =>
        /\ pc \notin Aborted
        /\ pc \in {"verify", "report", "done"} =>
               /\ Loadable(fs[onnx_path])
               /\ fs[TokenizerPath].kind = "tokenizer"

\* C5: when the export raised, the run is over, no stage after the export
\* ran, and neither the temporary nor the final path holds a file.
ExportFailureLeavesNothing ==
    "export" \in failed =>
        /\ pc \in Aborted
        /\ ran = <<"load", "export">>
        /\ fs[temp_onnx_path(script, quantized)] = Absent
        /\ FinalFile = Absent

\* C6: when the checkpoint load failed, the run is over, the export never
\* started and no file has been written below the output directory.
LoadFailureWritesNothing ==
    "load" \in failed =>
        /\ pc \in Aborted
        /\ "export" \notin Range(ran)
        /\ \A p \in Paths : fs[p] = Absent

\* a run whose checkpoint load failed
LoadFailureSeen == "load" \in failed /\ ran = <<"load">>

\* C7: with verification enabled, a graph at the final path or saved
\* tokenizer files imply that the verifier has already run.
VerifierBeforeBundle ==
    (/\ VerificationEnabled
     /\ \/ FinalFile.kind = "graph"
        \/ fs[TokenizerPath].kind = "tokenizer") =>
        "verify" \in Range(ran)

\* C8: when the verifier has run on a quantized graph, it has compared the
\* graph's output with the reference at a tolerance wider than 1e-4.
QuantizedComparedWithWiderTolerance ==
    (/\ verdict \notin {"none", "error"}
     /\ fs[onnx_path].precision = "int8") =>
        /\ ran_reference
        /\ atol_used > ATOL

\* C9: whenever a verifier has run to its end, it has run the reference
\* model on the sample input and compared the two outputs.
VerifierComparesWithReference ==
    verdict \notin {"none", "error"} => ran_reference

\* C10: an export that declares the batch axis of its inputs dynamic was
\* traced with a dummy input of batch size greater than 1.
DynamicBatchTracedWithBatchAboveOne ==
    (<<"input_ids", 0>> \in dynamic_axes) => dummy.batch > 1

\* axes of one tensor that the export declared dynamic
AxesOf(name) == {pair[2] : pair \in {q \in dynamic_axes : q[1] = name}}

\* C11: once download_optimized_bge_model has built its dynamic_axes, the
\* two inputs have the same dynamic axes, {batch, sequence} when
\* dynamic_sequence is set and {batch} when it is not, the output has
\* {batch} only, and no other tensor has a dynamic axis.
ConfiguredAxesDeclared ==
    (script = DOWNLOAD_OPT /\ "export" \in Range(ran)) =>
        /\ AxesOf("input_ids") = (IF dynamic_sequence THEN {0, 1} ELSE {0})
        /\ AxesOf("attention_mask") = AxesOf("input_ids")
        /\ AxesOf("sentence_embedding") = {0}
        /\ \A pair \in dynamic_axes :
               pair[1] \in {"input_ids", "attention_mask", "sentence_embedding"}

\* an export of download_optimized_bge_model with a fixed sequence axis
FixedSequenceExportSeen ==
    /\ script = DOWNLOAD_OPT
    /\ ~dynamic_sequence
    /\ "export" \in Range(ran)
    /\ fs["model.onnx"].kind = "graph"

\* graphs whose sequence axis was not declared dynamic at export
FixedSequenceAxis ==
    "export" \in Range(ran) /\ <<"input_ids", 1>> \notin dynamic_axes

\* C12: every input fed to a graph that was exported with a fixed sequence
\* axis has the sequence length of the export's dummy input.
InputsPaddedToFixedLength ==
    FixedSequenceAxis => \A input \in fed : input.seq = dummy.seq

\* the model's config states how many positions the model has
HasMaxPositions(c) ==
    /\ ~c.config_raises
    /\ \/ Usable(c.max_position_embeddings)
       \/ Usable(c.n_positions)
       \/ Usable(c.max_sequence_length)

\* the model's maximum position count
MaxPositions(c) ==
    IF Usable(c.max_position_embeddings) THEN c.max_position_embeddings.value
    ELSE IF Usable(c.n_positions) THEN c.n_positions.value
    ELSE c.max_sequence_length.value

\* C13: in an export with a fixed sequence axis, the dummy input is as long
\* as the model's maximum position count.
FixedDummyIsModelMaximum ==
    (FixedSequenceAxis /\ HasMaxPositions(config)) =>
        dummy.seq = MaxPositions(config)

\* graphs whose sequence axis was declared dynamic at export
DynamicSequenceAxis ==
    "export" \in Range(ran) /\ <<"input_ids", 1>> \in dynamic_axes

\* C14: in an export with a dynamic sequence axis, neither the dummy input
\* nor the verifier's truncation length is longer than the model's maximum
\* position count, and a verifier that ran with a longer one reports it.
DynamicExportWithinModelMaximum ==
    (DynamicSequenceAxis /\ HasMaxPositions(config)) =>
        /\ dummy.seq <= MaxPositions(config)
        /\ max_length <= MaxPositions(config)
        /\ (/\ "verify" \in Range(ran)
            /\ \/ dummy.seq > MaxPositions(config)
               \/ max_length > MaxPositions(config)) => verdict = "error"

\* a step in which the optimization passes ran to their end
OptimizationApplied ==
    /\ ran' = Append(ran, "optimize")
    /\ "optimize" \notin failed'

\* C15: no optimization pass is applied to a graph that has already been
\* downcast to float16: every step that applies the passes finds a graph
\* that is not float16 at the path it reads.
DowncastAfterOptimizations ==
    [][OptimizationApplied =>
           fs[temp_onnx_path(script, quantized)].precision # "fp16"]_vars

\* C16: a second application of the initializer pruning changes nothing:
\* every application after the first leaves the initializers and the
\* operator-count histogram of the saved graph as they were.
PruningIsIdempotent ==
    [][passes >= 1 =>
           /\ saved'.initializer = saved.initializer
           /\ Histogram(saved') = Histogram(saved)]_vars

\* the pruning ran twice on a graph from which its first run removed something
PrunedTwice ==
    /\ passes = 2
    /\ Len(saved.initializer) >= 1
    /\ Len(saved.initializer) < Len(graph.initializer)

\* C17: the graph saved by the pruning of a well-formed graph is well-formed
\* and has the nodes, declared inputs and declared outputs of the original.
PruningKeepsGraphWellFormed ==
    (passes >= 1 /\ WellFormed(graph)) =>
        /\ WellFormed(saved)
        /\ saved.node = graph.node
        /\ saved.input = graph.input
        /\ saved.output = graph.output

\* C18: when one rewrite of the catalogue has failed, the optimize step
\* does not end the run, and the graph it leaves has every other rewrite
\* of the catalogue applied.
FailedRewriteAloneIsSkipped ==
    rewrite_failed # NoRewrite =>
        /\ rewrites_applied = Catalogue(script) \ {rewrite_failed}
        /\ (ran[Len(ran)] = "optimize" => pc \notin Aborted)

\* C19: a rewritten graph at output_path derives from a simplified graph
\* whose equivalence check was run and passed, and once the simplifier has
\* returned a false check flag output_path never holds a rewritten graph.
OnlyVerifiedRewritesWritten ==
    LET out == disk[OutputPath]
        rewritten == /\ out.kind = "graph"
                     /\ out.content \in {"simplified", "optimized"}
    IN  /\ rewritten => out.check = "verified"
        /\ check = "False" => ~rewritten

\* C20: a verifier that ran to its end has run one sample text alone and
\* the same text inside a batch of two or more, and has compared the two
\* output rows.
BatchConsistencyChecked ==
    (VerificationEnabled /\ "verify" \in Range(ran) /\ verdict # "error") =>
        /\ \E alone \in fed, batched \in fed :
               /\ alone.batch = 1
               /\ batched.batch >= 2
               /\ alone.texts \subseteq batched.texts
        /\ ComparesBatchRows(script)

\* C21: whether the exported graph L2-normalizes its output is the same for
\* every script that can export the model of this run.
NormalizationPerModelFamily ==
    "export" \in Range(ran) =>
        \A other \in Scripts :
            AcceptsModel(other, model_name) =>
                Normalizes(other) = Normalizes(script)

(***************************************************************************)
(* mean_pooling on its own: one row of hidden states and its attention     *)
(* mask are pooled; afterwards the padding of the row is changed and the   *)
(* row is pooled again.  Rows and hidden dimensions are pooled             *)
(* independently of each other, so one row of one dimension is the state.  *)
(***************************************************************************)
HiddenValues == {Finite(-6), Finite(0), Finite(6), Inf(1), Inf(-1), NaN}
MaskValues == {0, 1}

PoolInit ==
    /\ PipelineAtRest
    /\ PruningAtRest
    /\ SimplifierAtRest
    /\ LookupAtRest
    /\ OverlapAtRest
    /\ \E n \in 1..MaxSeqLen :
        /\ token_embeddings \in [1..n -> HiddenValues]
        /\ attention_mask \in [1..n -> MaskValues]
    /\ sentence_embedding = NaN
    /\ pool_pc = "input"
    /\ padding_change = "none"

\* sentence_embeddings = mean_pooling(model_output, attention_mask)
MeanPooling ==
    /\ pool_pc = "input"
    /\ sentence_embedding' = mean_pooling(token_embeddings, attention_mask)
    /\ pool_pc' = "pooled"
    /\ UNCHANGED <<pipeline_vars, pruning_vars, simplifier_vars, lookup_vars,
                   overlap_vars, token_embeddings, attention_mask,
                   padding_change>>

\* the same row with another hidden state at a padding position
PoolWithOtherPadding(i, v) ==
    /\ pool_pc = "pooled"
    /\ i \in DOMAIN attention_mask
    /\ attention_mask[i] = 0
    /\ token_embeddings[i] # v
    /\ token_embeddings' = [token_embeddings EXCEPT ![i] = v]
    /\ sentence_embedding' = mean_pooling(token_embeddings', attention_mask)
    /\ padding_change' = "changed"
    /\ UNCHANGED <<pipeline_vars, pruning_vars, simplifier_vars, lookup_vars,
                   overlap_vars, attention_mask, pool_pc>>

\* the same row padded by one more position
PoolWithMorePadding(v) ==
    /\ pool_pc = "pooled"
    /\ Len(attention_mask) < MaxSeqLen
    /\ token_embeddings' = Append(token_embeddings, v)
    /\ attention_mask' = Append(attention_mask, 0)
    /\ sentence_embedding' = mean_pooling(token_embeddings', attention_mask')
    /\ padding_change' = "appended"
    /\ UNCHANGED <<pipeline_vars, pruning_vars, simplifier_vars, lookup_vars,
                   overlap_vars, pool_pc>>

PoolNext ==
    \/ MeanPooling
    \/ \E i \in 1..MaxSeqLen, v \in HiddenValues : PoolWithOtherPadding(i, v)
    \/ \E v \in HiddenValues : PoolWithMorePadding(v)

PoolSpec == PoolInit /\ [][PoolNext]_vars

AllZero(mask) == \A i \in DOMAIN mask : mask[i] = 0
HasRealToken(mask) == \E i \in DOMAIN mask : mask[i] = 1
AllFinite(hidden) == \A i \in DOMAIN hidden : IsFinite(hidden[i])
PaddingFinite(hidden, mask) ==
    \A i \in DOMAIN hidden : mask[i] = 0 => IsFinite(hidden[i])

\* C22: as stated, for every hidden-state tensor: the divisor of mean_pooling
\* is not zero and a row whose mask is all zero is pooled to zero.
EmptyRowPooledToZero ==
    pool_pc = "pooled" =>
        /\ sum_mask(attention_mask) # Finite(0)
        /\ AllZero(attention_mask) => sentence_embedding = Finite(0)

\* C22: for every tensor of finite hidden states, the divisor of mean_pooling
\* is not zero and a row whose mask is all zero is pooled to zero, not NaN.
FiniteEmptyRowPooledToZero ==
    (pool_pc = "pooled" /\ AllFinite(token_embeddings)) =>
        /\ sum_mask(attention_mask) # Finite(0)
        /\ AllZero(attention_mask) => sentence_embedding = Finite(0)

FiniteEmptyRowPooled ==
    /\ pool_pc = "pooled"
    /\ padding_change = "none"
    /\ AllZero(attention_mask)
    /\ AllFinite(token_embeddings)
    /\ \E i \in DOMAIN token_embeddings : token_embeddings[i] # Finite(0)
    /\ sentence_embedding = Finite(0)

\* C29: as stated: for a row with at least one real token, changing the hidden
\* state at a padding position or appending a padding position leaves the
\* pooled vector unchanged.
PaddingIrrelevant ==
    [][(/\ pool_pc = "pooled"
        /\ pool_pc' = "pooled"
        /\ HasRealToken(attention_mask))
            => sentence_embedding' = sentence_embedding]_vars

\* C29: for a row with at least one real token whose padding positions hold
\* finite hidden states before and after, changing the hidden state at a
\* padding position or appending a padding position leaves the pooled vector
\* unchanged.
FinitePaddingIrrelevant ==
    [][(/\ pool_pc = "pooled"
        /\ pool_pc' = "pooled"
        /\ HasRealToken(attention_mask)
        /\ PaddingFinite(token_embeddings, attention_mask)
        /\ PaddingFinite(token_embeddings', attention_mask'))
            => sentence_embedding' = sentence_embedding]_vars

PaddedRowPooledAgain ==
    /\ pool_pc = "pooled"
    /\ padding_change = "appended"
    /\ HasRealToken(attention_mask)
    /\ PaddingFinite(token_embeddings, attention_mask)
    /\ \E i \in DOMAIN attention_mask :
        attention_mask[i] = 0 /\ token_embeddings[i] = Finite(-6)
    /\ sentence_embedding = Finite(6)

\* the convert functions of MiniLM, st-codesearch and CodeBERT
GraphPathReturned ==
    /\ script \in {MINILM, ST_CODE, CODEBERT}
    /\ pc = "done"
    /\ onnx_path # NoPath

\* C23: after a successful conversion the returned graph path is model.onnx
\* or a precision-suffixed name in output_dir, holds a graph, and the
\* tokenizer files are in that directory.
ReturnedGraphBesideTokenizer ==
    GraphPathReturned =>
        /\ onnx_path \in PrecisionNamed
        /\ DirOf(onnx_path) = OutputDir
        /\ fs[onnx_path].kind = "graph"
        /\ fs[TokenizerPath] = TokenizerFiles
        /\ TokenizerDir(script) = DirOf(onnx_path)

\* C24: the metadata record of a finished optimize_bge_for_gpu run gives the
\* embedding dimension and the maximum sequence length of the exported model
\* and the precision of the graph it names.
MetadataDescribesExportedModel ==
    (script = OPTIMIZE_GPU /\ pc = "done") =>
        /\ metadata.hidden_size = EmbeddingDimension(model_name)
        /\ HasMaxPositions(config) =>
               metadata.max_sequence_length = MaxPositions(config)
        /\ metadata.fp16 = use_fp16
        /\ fs[metadata.model].kind = "graph"
        /\ metadata.fp16 <=> fs[metadata.model].precision = "fp16"

\* main passes quantized=use_quantization to verify_onnx_model and prints
\* "Quantized" in its banner on the same flag
ReportedAsQuantized(s, q) == s \in {MINILM, BGE_SMALL} /\ q

\* C25: a MiniLM or BGE-small run that was verified or reported as quantized
\* ends with the quantized graph at the final path.
QuantizedFlagMatchesFinalGraph ==
    (/\ ReportedAsQuantized(script, quantized)
     /\ pc = "done"
     /\ reported) =>
        /\ FinalFile.kind = "graph"
        /\ FinalFile.precision = "int8"

\* onnx.save(model_simp, temp_path) of this call completed
TempWritten(file) == file.kind = "graph" /\ file.content = "simplified"

\* C26: when simplify_model has returned or raised, the temporary file it
\* wrote is absent.
TempFileRemovedOnExit ==
    simplify_pc \in {"returned", "raised"} => ~TempWritten(disk[TempPath])

\* the batch sizes for which inference was attempted, in order of attempt
RECURSIVE BatchesAttempted(_)
BatchesAttempted(loop) ==
    IF loop = <<>> THEN <<>>
    ELSE LET rest == BatchesAttempted(Tail(loop))
         IN  IF rest # <<>> /\ Head(rest) = Head(loop).batch
             THEN rest ELSE <<Head(loop).batch>> \o rest

StandardInferenceFailed(loop) ==
    \E i \in DOMAIN loop : loop[i].path = "standard" /\ ~loop[i].ok

\* C27: in the inference test, whatever IO-binding attempts fail, every
\* failed IO-binding attempt is followed by standard inference for the same
\* batch size and inference is attempted for the batch sizes 1, 4, 8, 16 in
\* that order, as long as no standard inference fails.
IoBindingFailureFallsBack ==
    (attempts # <<>> /\ ~StandardInferenceFailed(attempts)) =>
        /\ BatchesAttempted(attempts) = BatchOrder
        /\ \A i \in DOMAIN attempts :
               (attempts[i].path = "io_binding" /\ ~attempts[i].ok) =>
                   /\ i < Len(attempts)
                   /\ attempts[i + 1] =
                          Attempt(attempts[i].batch, "standard", TRUE)

\* IO binding failed for the first and the last batch size
IoBindingFailedTwice ==
    /\ pc = "done"
    /\ \E i, j \in DOMAIN attempts :
        /\ attempts[i] = Attempt(1, "io_binding", FALSE)
        /\ attempts[j] = Attempt(16, "io_binding", FALSE)
    /\ \E i \in DOMAIN attempts : attempts[i] = Attempt(4, "io_binding", TRUE)

(***************************************************************************)
(* get_model_max_sequence_length on its own, for every combination of      *)
(* configuration attributes and tokenizer setting.                         *)
(***************************************************************************)
\* an attribute is missing, None or 0, negative, or a length
AttrValues == {NoAttr, Attr(0), Attr(-1), Attr(64), Attr(512)}
\* tokenizer.model_max_length: as above, or the "very large" default
TokenizerValues == AttrValues \cup {Attr(TOKENIZER_UPPER_BOUND)}

LookupConfigs ==
    {Config(mpe, np, msl, mml, tok, config_raises, tokenizer_raises) :
        mpe \in AttrValues, np \in AttrValues, msl \in AttrValues,
        mml \in AttrValues, tok \in TokenizerValues,
        config_raises \in BOOLEAN, tokenizer_raises \in BOOLEAN}

LookupInit ==
    /\ PipelineAtRest
    /\ PruningAtRest
    /\ SimplifierAtRest
    /\ PoolingAtRest
    /\ OverlapAtRest
    /\ lookup_config \in LookupConfigs
    /\ detected_max_len = 0
    /\ lookup_pc = "call"

\* max_len = get_model_max_sequence_length(model_name)
DetectMaxLength ==
    /\ lookup_pc = "call"
    /\ detected_max_len' = get_model_max_sequence_length(lookup_config)
    /\ lookup_pc' = "returned"
    /\ UNCHANGED <<pipeline_vars, pruning_vars, simplifier_vars, pooling_vars,
                   overlap_vars, lookup_config>>

LookupNext == DetectMaxLength

LookupSpec == LookupInit /\ [][LookupNext]_vars

\* the configuration attributes in the order they are tried
ConfigAttrs(c) ==
    <<c.max_position_embeddings, c.n_positions, c.max_sequence_length,
      c.model_max_length>>

\* C28: get_model_max_sequence_length returns a positive integer: the first
\* configuration attribute that is present and greater than 0, otherwise the
\* tokenizer's model_max_length when below 1,000,000, otherwise 512, and 512
\* when a lookup raises.
DetectedLengthPositive ==
    lookup_pc = "returned" =>
        LET c == lookup_config
            attrs == ConfigAttrs(c)
            usable == {i \in DOMAIN attrs :
                          attrs[i].present /\ attrs[i].value > 0}
            tok == c.tokenizer_model_max_length
        IN  /\ detected_max_len > 0
            /\ detected_max_len =
                   IF c.config_raises THEN 512
                   ELSE IF usable # {}
                   THEN attrs[CHOOSE i \in usable :
                                  \A j \in usable : i <= j].value
                   ELSE IF c.tokenizer_raises THEN 512
                   ELSE IF tok.present /\ tok.value < 1000000 THEN tok.value
                   ELSE 512

(***************************************************************************)
(* check_overlaps on its own.  The returned tuples hold the dictionaries   *)
(* of the list itself, so a tuple is given by the two list positions.      *)
(***************************************************************************)
FilePaths == {"test.rs", "test.py"}

\* chunks as the parsers produce them: a file and a range of its lines
Chunks ==
    {[file_path |-> f, start_line |-> a, end_line |-> b] :
        f \in FilePaths, a \in 1..MaxLine, b \in 1..MaxLine}
WellFormedChunks == {c \in Chunks : c.start_line <= c.end_line}

\* an overlap test that does not count a shared boundary line
ChunksOverlapStrictly(chunk1, chunk2) ==
    /\ chunk1.file_path = chunk2.file_path
    /\ chunk1.start_line < chunk2.end_line
    /\ chunk2.start_line < chunk1.end_line

\* the two nested ifs of check_overlaps
ChunksOverlap(chunk1, chunk2) ==
    /\ chunk1.file_path = chunk2.file_path
    /\ chunk1.start_line <= chunk2.end_line
    /\ chunk2.start_line <= chunk1.end_line

\* for j, chunk2 in enumerate(chunks[i+1:], i+1), from position j on
RECURSIVE InnerLoop(_, _, _)
InnerLoop(list, i, j) ==
    IF j > Len(list) THEN <<>>
    ELSE (IF ChunksOverlap(list[i], list[j]) THEN <<(<<i, j>>)>> ELSE <<>>)
            \o InnerLoop(list, i, j + 1)

\* for i, chunk1 in enumerate(chunks), from position i on
RECURSIVE OuterLoop(_, _)
OuterLoop(list, i) ==
    IF i > Len(list) THEN <<>>
    ELSE InnerLoop(list, i, i + 1) \o OuterLoop(list, i + 1)

check_overlaps(list) == OuterLoop(list, 1)

OverlapInit ==
    /\ PipelineAtRest
    /\ PruningAtRest
    /\ SimplifierAtRest
    /\ PoolingAtRest
    /\ LookupAtRest
    /\ \E n \in 0..MaxChunks : chunks \in [1..n -> WellFormedChunks]
    /\ overlaps = <<>>
    /\ overlap_pc = "call"

\* overlaps = check_overlaps(chunks)
CheckOverlaps ==
    /\ overlap_pc = "call"
    /\ overlaps' = check_overlaps(chunks)
    /\ overlap_pc' = "returned"
    /\ UNCHANGED <<pipeline_vars, pruning_vars, simplifier_vars, pooling_vars,
                   lookup_vars, chunks>>

OverlapNext == CheckOverlaps

OverlapSpec == OverlapInit /\ [][OverlapNext]_vars

\* the lines start_line..end_line of a chunk
LinesOf(chunk) == chunk.start_line..chunk.end_line

\* C30: check_overlaps returns exactly the pairs of positions i < j whose
\* chunks are of the same file and have a line in common, each pair once.
ExactlyTheOverlappingPairs ==
    overlap_pc = "returned" =>
        /\ Range(overlaps) =
               {pair \in (DOMAIN chunks) \X (DOMAIN chunks) :
                   /\ pair[1] < pair[2]
                   /\ chunks[pair[1]].file_path = chunks[pair[2]].file_path
                   /\ LinesOf(chunks[pair[1]]) \cap LinesOf(chunks[pair[2]]) # {}}
        /\ \A m, n \in DOMAIN overlaps :
               /\ overlaps[m][1] # overlaps[m][2]
               /\ m # n => {overlaps[m][1], overlaps[m][2]}
                               # {overlaps[n][1], overlaps[n][2]}

\* of three chunks of one file, two share only a boundary line and are
\* returned, two have no line in common and are not
BoundaryOverlapReturned ==
    /\ overlap_pc = "returned"
    /\ Len(chunks) = 3
    /\ \E m \in DOMAIN overlaps :
        LET c1 == chunks[overlaps[m][1]]
            c2 == chunks[overlaps[m][2]]
        IN  Cardinality(LinesOf(c1) \cap LinesOf(c2)) = 1
            /\ c1.end_line = c2.start_line
            /\ c1.start_line < c1.end_line
    /\ \E i, j \in DOMAIN chunks :
        /\ i < j
        /\ chunks[i].file_path = chunks[j].file_path
        /\ <<i, j>> \notin Range(overlaps)


====
